---- MODULE Spec2Model ----
(***************************************************************************)
(* Workspace / account routing of the linear-mcp server.                   *)
(*                                                                         *)
(* Two variants of the server are modelled side by side:                   *)
(*   variant = "workspaces" : src/src/index.ts     (LINEAR_API_KEY JSON)   *)
(*   variant = "accounts"   : src/unnamed/part_000 (ACCOUNTS JSON)         *)
(*                                                                         *)
(* A JavaScript string is a sequence of one-character strings, so that     *)
(* toLowerCase, trim and split are computed and not assumed.               *)
(***************************************************************************)
EXTENDS Integers, Sequences, FiniteSets, TLC

VARIABLES
    variant,           \* which program runs
    processEnv,        \* history: process.env as the program found it, in the
                       \* specifications that record it
    running,           \* FALSE once startup has ended the process
    workspacesConfig,  \* index.ts: {workspaces, activeWorkspaceId}
    accountsConfig,    \* part_000: {accounts, activeEmail}
    linearClients,     \* Map key -> client, built at startup
    linearClient,      \* the module-level default client, computed at startup
    phase,             \* "idle" | "pending" | "loop" | "issue" | "fanout" | "done" :
                       \* position of the call handler
    call,              \* the request being handled
    ret,               \* what the handler did and returned (phase = "done")
    selected,          \* history: key of the record last chosen by a successful selection
    allStates,         \* get_issue_status: the states pushed so far
    hasNextPage,       \* get_issue_status: the loop condition
    endCursor,         \* get_issue_status: the cursor of the next fetch
    delivered,         \* history: the pages the upstream has delivered to this call
    awaiting,          \* the call suspended at an await while the handler takes other requests
    fanout             \* get_issue: the sub-resource lookups started and settled

vars == <<variant, processEnv, running, workspacesConfig, accountsConfig, linearClients,
          linearClient, phase, call, ret, selected,
          allStates, hasNextPage, endCursor, delivered, awaiting, fanout>>

\* the locals of the pagination loop of get_issue_status
loop == <<allStates, hasNextPage, endCursor, delivered>>

shared == <<workspacesConfig, accountsConfig, linearClients, linearClient>>

-----------------------------------------------------------------------------
(* Bounds *)

\* longest workspace / account list a configuration declares
MaxRecords == 2

-----------------------------------------------------------------------------
(* JavaScript values *)

\* undefined (an absent JSON field or argument): a sequence that is no string
Undefined == <<"undefined">>

\* truthiness of a string-or-undefined value
Truthy(v) == v # Undefined /\ v # <<>>

UpperChars == <<"A","B","C","D","E","F","G","H","I","J","K","L","M",
                "N","O","P","Q","R","S","T","U","V","W","X","Y","Z">>
LowerChars == <<"a","b","c","d","e","f","g","h","i","j","k","l","m",
                "n","o","p","q","r","s","t","u","v","w","x","y","z">>

toLowerCaseChar(c) ==
    IF \E i \in DOMAIN UpperChars : UpperChars[i] = c
    THEN LowerChars[CHOOSE i \in DOMAIN UpperChars : UpperChars[i] = c]
    ELSE c

\* String.prototype.toLowerCase
toLowerCase(s) == [i \in 1..Len(s) |-> toLowerCaseChar(s[i])]

RECURSIVE trimStart(_)
trimStart(s) == IF s # <<>> /\ Head(s) = " " THEN trimStart(Tail(s)) ELSE s

RECURSIVE trimEnd(_)
trimEnd(s) ==
    IF s # <<>> /\ s[Len(s)] = " " THEN trimEnd(SubSeq(s, 1, Len(s) - 1)) ELSE s

\* String.prototype.trim
trim(s) == trimEnd(trimStart(s))

\* String.prototype.split(sep) for a one-character separator
RECURSIVE split(_, _)
split(s, sep) ==
    IF \E i \in 1..Len(s) : s[i] = sep
    THEN LET i == CHOOSE k \in 1..Len(s) :
                      s[k] = sep /\ \A j \in 1..(k - 1) : s[j] # sep
         IN  <<SubSeq(s, 1, i - 1)>> \o split(SubSeq(s, i + 1, Len(s)), sep)
    ELSE <<s>>

\* Array.prototype.includes
includes(arr, v) == \E i \in 1..Len(arr) : arr[i] = v

\* mutant of aliasList: the entries are not trimmed
aliasList_untrimmed(aliases) ==
    LET parts == split(aliases, ",")
    IN  [i \in 1..Len(parts) |-> toLowerCase(parts[i])]

\* aliases.split(',').map(a => a.trim().toLowerCase())
aliasList(aliases) ==
    LET parts == split(aliases, ",")
    IN  [i \in 1..Len(parts) |-> toLowerCase(trim(parts[i]))]

Min(S) == CHOOSE m \in S : \A n \in S : m <= n

\* Array.prototype.find with a predicate that may throw: hit[i] tells whether
\* the predicate accepts element i, throws[i] whether it throws on it. The
\* index of the first element accepted, 0 when there is none, -1 when the
\* predicate throws before any element is accepted.
find(hit, throws) ==
    LET stops == {i \in 1..Len(hit) : throws[i] \/ hit[i]}
    IN  IF stops = {} THEN 0
        ELSE IF throws[Min(stops)] THEN -1 ELSE Min(stops)

\* sequences over Pool of length at most n
RECURSIVE SeqsUpTo(_, _)
SeqsUpTo(Pool, n) ==
    IF n = 0 THEN {<<>>}
    ELSE LET shorter == SeqsUpTo(Pool, n - 1)
         IN  shorter \cup {Append(s, p) : s \in shorter, p \in Pool}

-----------------------------------------------------------------------------
(* Inputs: the strings configurations and requests are built from *)

S_a       == <<"a">>
S_b       == <<"b">>
S_c       == <<"c">>
S_main    == <<"m","a","i","n">>
S_MAIN    == <<"M","A","I","N">>
S_Alpha   == <<"A","l","p","h","a">>
S_alpha   == <<"a","l","p","h","a">>
S_ALPHA   == <<"A","L","P","H","A">>
S_Beta    == <<"B","e","t","a">>
S_beta    == <<"b","e","t","a">>
S_B       == <<"B">>
S_Work    == <<"W","o","r","k">>
S_wor     == <<"w","o","r">>
S_zzz     == <<"z","z","z">>
S_default == <<"d","e","f","a","u","l","t">>
\* the aliases string of .env.example, "work, main"
S_workMain == <<"w","o","r","k",","," ","m","a","i","n">>
\* " Main ,beta"
S_MainBeta == <<" ","M","a","i","n"," ",",","b","e","t","a">>

E_a == <<"a","@","x">>
E_b == <<"b","@","x">>
E_c == <<"c","@","x">>
E_m == <<"m","@","x">>

K_0 == <<"k","0">>
K_1 == <<"k","1">>
K_2 == <<"k","2">>
K_3 == <<"k","3">>
K_4 == <<"k","4">>
K_5 == <<"k","5">>
defaultEmail ==
    <<"d","e","f","a","u","l","t","@","l","i","n","e","a","r","-","m","c","p",".","l","o","c","a","l">>
\* the raw text of a JSON configuration value
RawJson == <<"{","}">>

\* workspace elements a LINEAR_API_KEY configuration may declare
WorkspacePool == {
    [id |-> S_a,    name |-> S_Alpha,   email |-> E_a, apiKey |-> K_1, aliases |-> S_workMain],
    [id |-> S_b,    name |-> S_Beta,    email |-> E_b, apiKey |-> K_2, aliases |-> Undefined],
    [id |-> S_main, name |-> S_Work,    email |-> E_m, apiKey |-> K_3, aliases |-> S_alpha],
    [id |-> S_a,    name |-> S_B,       email |-> E_c, apiKey |-> K_4, aliases |-> S_MainBeta],
    [id |-> S_c,    name |-> Undefined, email |-> Undefined, apiKey |-> K_5, aliases |-> S_Work] }

ActiveIds == {Undefined, S_b, S_default}

\* the value of LINEAR_API_KEY: its text, whether decodeURIComponent + JSON.parse
\* succeed on it, and what they yield
EnvUnset ==
    [text |-> Undefined, parses |-> FALSE, hasWorkspaces |-> FALSE,
     workspaces |-> <<>>, activeWorkspaceId |-> Undefined]
EnvBareKey ==
    [text |-> K_0, parses |-> FALSE, hasWorkspaces |-> FALSE,
     workspaces |-> <<>>, activeWorkspaceId |-> Undefined]
EnvJsonNoWorkspaces ==
    [text |-> RawJson, parses |-> TRUE, hasWorkspaces |-> FALSE,
     workspaces |-> <<>>, activeWorkspaceId |-> S_b]
WorkspaceEnvs ==
    {EnvUnset, EnvBareKey, EnvJsonNoWorkspaces} \cup
    {[text |-> RawJson, parses |-> TRUE, hasWorkspaces |-> TRUE,
      workspaces |-> ws, activeWorkspaceId |-> a] :
        ws \in SeqsUpTo(WorkspacePool, MaxRecords), a \in ActiveIds}

\* selector strings a request may carry as workspace / workspaceId
Selectors == {Undefined, <<>>, S_a, S_b, S_Alpha, S_ALPHA, S_beta, S_Work,
              S_MAIN, S_main, S_wor, S_zzz}

-----------------------------------------------------------------------------
(* index.ts: startup *)

\* a LinearClient object: which construction made it, and its credential
NoClient == [made |-> 0, apiKey |-> Undefined]

\* new Map()
EmptyMap == [k \in {} |-> NoClient]

NullConfig == [isNull |-> TRUE, workspaces |-> <<>>, activeWorkspaceId |-> Undefined]

\* the workspacesConfig the try block leaves
parseWorkspacesConfig(env) ==
    IF Truthy(env.text) /\ env.parses /\ env.hasWorkspaces
    THEN [isNull |-> FALSE, workspaces |-> env.workspaces,
          activeWorkspaceId |-> env.activeWorkspaceId]
    ELSE NullConfig

defaultWorkspaceId == S_default

\* mutant of defaultWorkspacesConfig: the synthesized configuration names no
\* active workspace
defaultWorkspacesConfig_inactive(apiKey) ==
    [isNull |-> FALSE,
     workspaces |-> << [id |-> defaultWorkspaceId,
                        name |-> <<"D","e","f","a","u","l","t"," ","W","o","r","k","s","p","a","c","e">>,
                        email |-> defaultEmail,
                        apiKey |-> apiKey, aliases |-> Undefined] >>,
     activeWorkspaceId |-> Undefined]

\* the workspacesConfig assigned in the else-if (API_KEY) branch
defaultWorkspacesConfig(apiKey) ==
    [isNull |-> FALSE,
     workspaces |-> << [id |-> defaultWorkspaceId,
                        name |-> <<"D","e","f","a","u","l","t"," ","W","o","r","k","s","p","a","c","e">>,
                        email |-> defaultEmail,
                        apiKey |-> apiKey, aliases |-> Undefined] >>,
     activeWorkspaceId |-> defaultWorkspaceId]

\* the Map after linearClients.set(ws.id, new LinearClient(...)) for each
\* element in order: a later element with the same id replaces the earlier
clientsOfWorkspaces(ws) ==
    [k \in {ws[i].id : i \in 1..Len(ws)} |->
        LET last == CHOOSE i \in 1..Len(ws) :
                        ws[i].id = k /\ \A j \in (i + 1)..Len(ws) : ws[j].id # k
        IN  [made |-> last, apiKey |-> ws[last].apiKey]]

getLinearClient(config, clients, workspaceId) ==
    IF Truthy(workspaceId) /\ workspaceId \in DOMAIN clients
    THEN clients[workspaceId]
    ELSE IF ~config.isNull /\ Truthy(config.activeWorkspaceId)
            /\ config.activeWorkspaceId \in DOMAIN clients
    THEN clients[config.activeWorkspaceId]
    ELSE IF ~config.isNull /\ Len(config.workspaces) > 0
    THEN clients[config.workspaces[1].id]
    ELSE NoClient    \* throw new Error("No Linear client available...")

\* the module-level statements of index.ts, top to bottom
startWorkspaces(env) ==
    LET parsed  == parseWorkspacesConfig(env)
        API_KEY == env.text
    IN  IF parsed.isNull /\ ~Truthy(API_KEY)
        THEN [running |-> FALSE, config |-> parsed, clients |-> EmptyMap,
              client |-> NoClient]                       \* process.exit(1)
        ELSE
        LET multi   == ~parsed.isNull /\ Len(parsed.workspaces) > 0
            clients == IF multi THEN clientsOfWorkspaces(parsed.workspaces)
                       ELSE IF Truthy(API_KEY)
                       THEN [k \in {defaultWorkspaceId} |-> [made |-> 1, apiKey |-> API_KEY]]
                       ELSE EmptyMap
            config  == IF ~multi /\ Truthy(API_KEY) /\ parsed.isNull
                       THEN defaultWorkspacesConfig(API_KEY) ELSE parsed
            client  == getLinearClient(config, clients, Undefined)
        IN  [running |-> client # NoClient,   \* an uncaught throw ends the process
             config |-> config, clients |-> clients, client |-> client]

\* findWorkspace of index.ts: the index of the element found, 0 for null,
\* -1 when a TypeError leaves the function
findWorkspace(config, nameOrIdOrAlias) ==
    IF config.isNull THEN 0
    ELSE
    LET ws == config.workspaces
        n  == Len(ws)
        lowercaseSearch == toLowerCase(nameOrIdOrAlias)
        Never(i)    == FALSE
        IdHit(i)    == ws[i].id = nameOrIdOrAlias
        NameBad(i)  == ws[i].name = Undefined
        NameHit(i)  == toLowerCase(ws[i].name) = lowercaseSearch
        AliasHit(i) == Truthy(ws[i].aliases)
                       /\ includes(aliasList(ws[i].aliases), lowercaseSearch)
        workspaceById    == find([i \in 1..n |-> IdHit(i)], [i \in 1..n |-> Never(i)])
        workspaceByName  == find([i \in 1..n |-> NameHit(i)], [i \in 1..n |-> NameBad(i)])
        workspaceByAlias == find([i \in 1..n |-> AliasHit(i)], [i \in 1..n |-> Never(i)])
    IN  IF workspaceById > 0 THEN workspaceById
        ELSE IF workspaceByName # 0 THEN workspaceByName
        ELSE workspaceByAlias

-----------------------------------------------------------------------------
(* part_000: startup *)

\* accounts an ACCOUNTS configuration may declare
AccountPool == {
    [email |-> E_a, apiKey |-> K_1, hasWorkspaces |-> TRUE,
     workspaces |-> << [name |-> S_Alpha, aliases |-> S_workMain] >>],
    [email |-> E_b, apiKey |-> K_2, hasWorkspaces |-> TRUE,
     workspaces |-> << [name |-> S_Work, aliases |-> S_alpha],
                       [name |-> S_Beta, aliases |-> <<>>] >>],
    [email |-> E_c, apiKey |-> K_3, hasWorkspaces |-> FALSE, workspaces |-> <<>>],
    [email |-> E_a, apiKey |-> K_4, hasWorkspaces |-> TRUE,
     workspaces |-> << [name |-> S_main, aliases |-> Undefined] >>] }

ActiveEmails == {Undefined, E_b, S_zzz}

\* the values of ACCOUNTS and LINEAR_API_KEY: whether ACCOUNTS is set, whether
\* JSON.parse succeeds on it and what it yields, and the bare key
AccountEnvs ==
    {[set |-> FALSE, parses |-> FALSE, hasAccounts |-> FALSE, accounts |-> <<>>,
      activeEmail |-> Undefined, apiKey |-> k] : k \in {Undefined, K_0}}
    \cup
    {[set |-> TRUE, parses |-> FALSE, hasAccounts |-> FALSE, accounts |-> <<>>,
      activeEmail |-> Undefined, apiKey |-> K_0]}
    \cup
    {[set |-> TRUE, parses |-> TRUE, hasAccounts |-> FALSE, accounts |-> <<>>,
      activeEmail |-> a, apiKey |-> K_0] : a \in {Undefined, defaultEmail}}
    \cup
    {[set |-> TRUE, parses |-> TRUE, hasAccounts |-> TRUE, accounts |-> <<>>,
      activeEmail |-> a, apiKey |-> k] :
        a \in {Undefined, defaultEmail}, k \in {Undefined, K_0}}
    \cup
    {[set |-> TRUE, parses |-> TRUE, hasAccounts |-> TRUE, accounts |-> acc,
      activeEmail |-> a, apiKey |-> Undefined] :
        acc \in SeqsUpTo(AccountPool, MaxRecords) \ {<<>>}, a \in ActiveEmails}

\* email and workspace arguments a request of part_000 may carry
EmailArgs     == {Undefined, E_a, S_zzz}
WorkspaceArgs == {Undefined, S_alpha, S_Work, S_MAIN, S_wor}

NullAccounts ==
    [isNull |-> TRUE, hasAccounts |-> FALSE, accounts |-> <<>>, activeEmail |-> Undefined]

defaultAccountsConfig(apiKey) ==
    [isNull |-> FALSE, hasAccounts |-> TRUE,
     accounts |-> << [email |-> defaultEmail, apiKey |-> apiKey,
                      hasWorkspaces |-> FALSE, workspaces |-> <<>>] >>,
     activeEmail |-> defaultEmail]

clientsOfAccounts(acc) ==
    [k \in {acc[i].email : i \in 1..Len(acc)} |->
        LET last == CHOOSE i \in 1..Len(acc) :
                        acc[i].email = k /\ \A j \in (i + 1)..Len(acc) : acc[j].email # k
        IN  [made |-> last, apiKey |-> acc[last].apiKey]]

getLinearClientAcct(config, clients, email) ==
    IF Truthy(email) /\ email \in DOMAIN clients
    THEN clients[email]
    ELSE IF ~config.isNull /\ Truthy(config.activeEmail)
            /\ config.activeEmail \in DOMAIN clients
    THEN clients[config.activeEmail]
    ELSE IF ~config.isNull /\ config.hasAccounts /\ Len(config.accounts) > 0
            /\ Truthy(config.accounts[1].email)
    THEN clients[config.accounts[1].email]
    ELSE NoClient    \* throw new Error("No Linear client available...")

\* the module-level statements of part_000, top to bottom
startAccounts(env) ==
    IF env.set /\ ~env.parses
    THEN [running |-> FALSE, config |-> NullAccounts, clients |-> EmptyMap,
          client |-> NoClient]                           \* process.exit(1)
    ELSE
    LET parsed  == IF env.set
                   THEN [isNull |-> FALSE, hasAccounts |-> env.hasAccounts,
                         accounts |-> env.accounts, activeEmail |-> env.activeEmail]
                   ELSE NullAccounts
        API_KEY == env.apiKey
    IN  IF parsed.isNull /\ ~Truthy(API_KEY)
        THEN [running |-> FALSE, config |-> parsed, clients |-> EmptyMap,
              client |-> NoClient]                       \* process.exit(1)
        ELSE
        LET multi   == ~parsed.isNull /\ parsed.hasAccounts /\ Len(parsed.accounts) > 0
            clients == IF multi THEN clientsOfAccounts(parsed.accounts)
                       ELSE IF Truthy(API_KEY)
                       THEN [k \in {defaultEmail} |-> [made |-> 1, apiKey |-> API_KEY]]
                       ELSE EmptyMap
            config  == IF ~multi /\ Truthy(API_KEY) /\ parsed.isNull
                       THEN defaultAccountsConfig(API_KEY) ELSE parsed
            client  == getLinearClientAcct(config, clients, Undefined)
        IN  [running |-> client # NoClient,   \* an uncaught throw ends the process
             config |-> config, clients |-> clients, client |-> client]

\* the (account, workspace) pairs in the order the nested loops of
\* findWorkspace visit them; accounts without workspaces are skipped
RECURSIVE visitOrder(_, _)
visitOrder(accounts, i) ==
    IF i > Len(accounts) THEN <<>>
    ELSE (IF accounts[i].hasWorkspaces
          THEN [j \in 1..Len(accounts[i].workspaces) |-> [record |-> i, workspace |-> j]]
          ELSE <<>>)
         \o visitOrder(accounts, i + 1)

NoMatch == [record |-> 0, workspace |-> 0]
Thrown  == [record |-> -1, workspace |-> -1]

\* findWorkspace of part_000: the pair found, NoMatch for null, Thrown when a
\* TypeError leaves the function
findWorkspaceAcct(config, nameOrAlias) ==
    IF config.isNull \/ ~config.hasAccounts THEN NoMatch
    ELSE
    LET order == visitOrder(config.accounts, 1)
        lowercaseSearch == toLowerCase(nameOrAlias)
        ws(k)       == config.accounts[order[k].record].workspaces[order[k].workspace]
        NameBad(k)  == ws(k).name = Undefined
        NameHit(k)  == toLowerCase(ws(k).name) = lowercaseSearch
        AliasBad(k) == ws(k).aliases = Undefined
        AliasHit(k) == includes(aliasList(ws(k).aliases), lowercaseSearch)
        Bad(k) == NameBad(k) \/ (~NameHit(k) /\ AliasBad(k))
        Hit(k) == ~NameBad(k) /\ (NameHit(k) \/ (~AliasBad(k) /\ AliasHit(k)))
        at == find([i \in 1..Len(order) |-> Hit(i)], [i \in 1..Len(order) |-> Bad(i)])
    IN  IF at = 0 THEN NoMatch ELSE IF at = -1 THEN Thrown ELSE order[at]

-----------------------------------------------------------------------------
(* Requests and results *)

SelectionTool == IF variant = "workspaces" THEN "list_workspaces" ELSE "select_account"

RoutedTools == {"create_issue", "list_issues", "update_issue", "list_teams",
                "list_projects", "search_issues", "get_issue_status", "get_issue"}

\* the arguments each case of the switch requires
RequiredArgs(name) ==
    CASE name = "create_issue"     -> {"title", "teamId"}
      [] name = "update_issue"     -> {"issueId"}
      [] name = "search_issues"    -> {"query"}
      [] name = "get_issue_status" -> {"teamId"}
      [] name = "get_issue"        -> {"issueId"}
      [] OTHER                     -> {}

\* request.params: name and arguments. hasArgs is FALSE when the request
\* carries no arguments object; given holds the required arguments that are
\* present and truthy. repeat marks a request delivered a second time.
Request(name, hasArgs, email, workspace, workspaceId, given) ==
    [name |-> name, hasArgs |-> hasArgs, email |-> email, workspace |-> workspace,
     workspaceId |-> workspaceId, given |-> given, repeat |-> FALSE]

NoCall == Request("", FALSE, Undefined, Undefined, Undefined, {})

GivenSets(name) == IF name \in RoutedTools THEN SUBSET RequiredArgs(name) ELSE {{}}

WorkspaceRequests ==
    {Request("list_workspaces", TRUE, Undefined, s, Undefined, {}) : s \in Selectors}
    \cup {Request(n, FALSE, Undefined, Undefined, Undefined, {}) :
            n \in RoutedTools \cup {"list_workspaces", "no_such_tool"}}
    \cup UNION {{Request(n, TRUE, Undefined, Undefined, s, g) :
                    s \in Selectors, g \in GivenSets(n)} : n \in RoutedTools}

AccountRequests ==
    {Request("select_account", TRUE, e, w, Undefined, {}) :
        e \in EmailArgs, w \in WorkspaceArgs}
    \cup {Request(n, FALSE, Undefined, Undefined, Undefined, {}) :
            n \in RoutedTools \cup {"select_account", "no_such_tool"}}
    \cup UNION {{Request(n, TRUE, e, w, Undefined, g) :
                    e \in EmailArgs, w \in WorkspaceArgs, g \in GivenSets(n)} :
                n \in RoutedTools}

Requests == IF variant = "workspaces" THEN WorkspaceRequests ELSE AccountRequests

\* an element of a listing: the fields copied into a response
NoEntry == [id |-> Undefined, name |-> Undefined, email |-> Undefined]

\* what a handler returns: the isError flag of the envelope (FALSE when the
\* envelope carries none) and what its content says
Result(isError, kind, message, listed, active) ==
    [isError |-> isError, kind |-> kind, message |-> message,
     listed |-> listed, active |-> active]

NoResult == Result(FALSE, "", "", <<>>, NoEntry)

Payload == Result(FALSE, "payload", "", <<>>, NoEntry)

\* the catch block of index.ts: the message as text, no isError
caught(message) == Result(FALSE, "error", message, <<>>, NoEntry)

\* the catch block of part_000: the message as text, isError: true
caughtAcct(message) == Result(TRUE, "error", message, <<>>, NoEntry)

NoRet == [before |-> Undefined, lookup |-> NoMatch, client |-> NoClient,
          result |-> NoResult]

\* no call is suspended
NoAwait == [call |-> NoCall, client |-> NoClient, before |-> Undefined, ops |-> <<>>]

\* no lookup has been started
NoFanout == [started |-> {}, settled |-> {}, first |-> "", details |-> <<>>]

missing(c) == ~c.hasArgs \/ ~(RequiredArgs(c.name) \subseteq c.given)

-----------------------------------------------------------------------------
(* index.ts: the CallToolRequestSchema handler *)

\* mutant of entryOf: the credential is copied in place of the name
entryOf_withKey(ws) == [id |-> ws.id, name |-> ws.apiKey, email |-> ws.email]

\* the fields of a workspace that list_workspaces copies into its response
entryOf(ws) == [id |-> ws.id, name |-> ws.name, email |-> ws.email]

listingOf(config) ==
    [i \in 1..Len(config.workspaces) |-> entryOf(config.workspaces[i])]

namesOf(config) ==
    [i \in 1..Len(config.workspaces) |->
        [id |-> Undefined, name |-> config.workspaces[i].name, email |-> Undefined]]

\* mutant of setActive: selecting the workspace that is already active clears
\* the pointer
setActive_toggles(config, id) ==
    [config EXCEPT !.activeWorkspaceId =
        IF config.activeWorkspaceId = id THEN Undefined ELSE id]

\* mutant of setActive: the pointer goes to the first declared workspace
setActive_first(config, id) ==
    [config EXCEPT !.activeWorkspaceId = config.workspaces[1].id]

\* workspacesConfig.activeWorkspaceId = workspace.id
setActive(config, id) == [config EXCEPT !.activeWorkspaceId = id]

\* what list_workspaces leaves when the selector is not found
\* mutant: the pointer is cleared
notFound_clears(config) == [config EXCEPT !.activeWorkspaceId = Undefined]

\* the else branch of list_workspaces writes nothing
notFound(config) == config

\* case "list_workspaces": the configuration it leaves, the lookup it made
\* and the result it returns
list_workspaces(config, c) ==
    LET same(result) == [config |-> config, lookup |-> NoMatch, result |-> result]
        ws == config.workspaces
    IN  IF config.isNull \/ Len(ws) = 0
        THEN same(Result(FALSE, "noWorkspaces", "", <<>>, NoEntry))
        ELSE IF c.hasArgs /\ Truthy(c.workspace)
        THEN LET workspace == findWorkspace(config, c.workspace)
             IN  IF workspace = -1
                 THEN [config |-> config, lookup |-> Thrown,
                       result |-> caught("TypeError")]
                 ELSE IF workspace > 0
                 THEN [config |-> setActive(config, ws[workspace].id),
                       lookup |-> [record |-> workspace, workspace |-> 0],
                       result |-> Result(FALSE, "selected", "", listingOf(config),
                                         entryOf(ws[workspace]))]
                 ELSE [config |-> notFound(config), lookup |-> NoMatch,
                       result |-> Result(FALSE, "notFound", "", namesOf(config), NoEntry)]
        ELSE LET IsActive(i) == ws[i].id = config.activeWorkspaceId
                 Never(i) == FALSE
                 activeWorkspace == find([i \in 1..Len(ws) |-> IsActive(i)], [i \in 1..Len(ws) |-> Never(i)])
             IN  same(Result(FALSE, "listing", "", listingOf(config),
                             IF activeWorkspace > 0 THEN entryOf(ws[activeWorkspace])
                             ELSE NoEntry))

\* the cases that call the upstream API: the client the upstream operation
\* is issued on (NoClient when none is issued) and the result returned
routed(config, clients, c, upstreamOk) ==
    LET fail(message) == [client |-> NoClient, result |-> caught(message)]
    IN  IF c.name = "search_issues" /\ missing(c) THEN fail("MissingArgument")
        ELSE IF ~c.hasArgs THEN fail("TypeError")
        ELSE LET client == getLinearClient(config, clients, c.workspaceId)
             IN  IF client = NoClient THEN fail("NoClient")
                 ELSE IF missing(c) THEN fail("MissingArgument")
                 ELSE [client |-> client,
                       result |-> IF upstreamOk THEN Payload ELSE caught("Upstream")]

-----------------------------------------------------------------------------
(* part_000: the CallToolRequestSchema handler *)

accountEntry(account, name) == [id |-> account.email, name |-> name, email |-> account.email]

\* accountsConfig.activeEmail = result.email / account.email
setActiveEmail(config, email) == [config EXCEPT !.activeEmail = email]

\* mutant of select_account: a given email takes precedence over the workspace,
\* as it does in the tools that call the upstream API
select_account_emailFirst(config, c) ==
    LET same(lookup, result) == [config |-> config, lookup |-> lookup, result |-> result]
        acc == config.accounts
    IN  IF config.isNull \/ ~config.hasAccounts \/ Len(acc) = 0
        THEN same(NoMatch, Result(FALSE, "noWorkspaces", "", <<>>, NoEntry))
        ELSE IF ~c.hasArgs THEN same(NoMatch, caughtAcct("TypeError"))
        ELSE IF Truthy(c.workspace) /\ ~Truthy(c.email)
        THEN LET result == findWorkspaceAcct(config, c.workspace)
             IN  IF result = Thrown THEN same(Thrown, caughtAcct("TypeError"))
                 ELSE IF result # NoMatch
                 THEN [config |-> setActiveEmail(config, acc[result.record].email),
                       lookup |-> result,
                       result |-> Result(FALSE, "selected", "", <<>>,
                                    accountEntry(acc[result.record],
                                        acc[result.record].workspaces[result.workspace].name))]
                 ELSE same(NoMatch, Result(FALSE, "notFound", "", <<>>, NoEntry))
        ELSE IF Truthy(c.email)
        THEN LET IsIt(i) == acc[i].email = c.email
                 Never(i) == FALSE
                 account == find([i \in 1..Len(acc) |-> IsIt(i)], [i \in 1..Len(acc) |-> Never(i)])
             IN  IF account > 0
                 THEN [config |-> setActiveEmail(config, acc[account].email),
                       lookup |-> [record |-> account, workspace |-> 0],
                       result |-> Result(FALSE, "selected", "", <<>>,
                                         accountEntry(acc[account], Undefined))]
                 ELSE same(NoMatch, Result(FALSE, "notFound", "", <<>>, NoEntry))
        ELSE same(NoMatch,
                  Result(FALSE, "listing", "",
                         [i \in 1..Len(acc) |-> accountEntry(acc[i], Undefined)],
                         NoEntry))

\* case "select_account"
select_account(config, c) ==
    LET same(lookup, result) == [config |-> config, lookup |-> lookup, result |-> result]
        acc == config.accounts
    IN  IF config.isNull \/ ~config.hasAccounts \/ Len(acc) = 0
        THEN same(NoMatch, Result(FALSE, "noWorkspaces", "", <<>>, NoEntry))
        ELSE IF ~c.hasArgs THEN same(NoMatch, caughtAcct("TypeError"))
        ELSE IF Truthy(c.workspace)
        THEN LET result == findWorkspaceAcct(config, c.workspace)
             IN  IF result = Thrown THEN same(Thrown, caughtAcct("TypeError"))
                 ELSE IF result # NoMatch
                 THEN [config |-> setActiveEmail(config, acc[result.record].email),
                       lookup |-> result,
                       result |-> Result(FALSE, "selected", "", <<>>,
                                    accountEntry(acc[result.record],
                                        acc[result.record].workspaces[result.workspace].name))]
                 ELSE same(NoMatch, Result(FALSE, "notFound", "", <<>>, NoEntry))
        ELSE IF Truthy(c.email)
        THEN LET IsIt(i) == acc[i].email = c.email
                 Never(i) == FALSE
                 account == find([i \in 1..Len(acc) |-> IsIt(i)], [i \in 1..Len(acc) |-> Never(i)])
             IN  IF account > 0
                 THEN [config |-> setActiveEmail(config, acc[account].email),
                       lookup |-> [record |-> account, workspace |-> 0],
                       result |-> Result(FALSE, "selected", "", <<>>,
                                         accountEntry(acc[account], Undefined))]
                 ELSE same(NoMatch, Result(FALSE, "notFound", "", <<>>, NoEntry))
        ELSE same(NoMatch,
                  Result(FALSE, "listing", "",
                         [i \in 1..Len(acc) |-> accountEntry(acc[i], Undefined)],
                         NoEntry))

\* the cases that call the upstream API
routedAcct(config, clients, default, c, upstreamOk) ==
    LET fail(lookup, message) ==
            [client |-> NoClient, lookup |-> lookup, result |-> caughtAcct(message)]
        typeErrorFirst == c.name \in {"get_issue_status", "list_teams",
                                      "list_issues", "list_projects"}
    IN  IF ~c.hasArgs /\ typeErrorFirst THEN fail(NoMatch, "TypeError")
        ELSE IF missing(c) THEN fail(NoMatch, "MissingArgument")
        ELSE
        LET byWorkspace == Truthy(c.workspace) /\ ~Truthy(c.email)
            found == IF byWorkspace THEN findWorkspaceAcct(config, c.workspace)
                     ELSE NoMatch
        IN  IF byWorkspace /\ found = Thrown THEN fail(Thrown, "TypeError")
            ELSE IF byWorkspace /\ found = NoMatch THEN fail(NoMatch, "UnknownWorkspace")
            ELSE
            LET clientEmail == IF byWorkspace THEN config.accounts[found.record].email
                               ELSE c.email
                client == IF Truthy(clientEmail)
                          THEN getLinearClientAcct(config, clients, clientEmail)
                          ELSE default
            IN  IF client = NoClient THEN fail(found, "NoClient")
                ELSE [client |-> client, lookup |-> found,
                      result |-> IF upstreamOk THEN Payload ELSE caughtAcct("Upstream")]

-----------------------------------------------------------------------------
(* The state machine *)

\* the active pointer of the running variant
active ==
    IF variant = "workspaces" THEN workspacesConfig.activeWorkspaceId
    ELSE accountsConfig.activeEmail

\* the state the module-level statements leave, for the environments given;
\* recorded tells whether the environment is kept in processEnv
InitFrom(workspaceEnvs, accountEnvs, recorded) ==
    /\ variant \in {"workspaces", "accounts"}
    /\ \/ /\ variant = "workspaces"
          /\ \E env \in workspaceEnvs :
                LET st == startWorkspaces(env)
                IN  /\ processEnv = (IF recorded THEN env ELSE Undefined)
                    /\ running = st.running
                    /\ workspacesConfig = st.config
                    /\ linearClients = st.clients
                    /\ linearClient = st.client
          /\ accountsConfig = NullAccounts
       \/ /\ variant = "accounts"
          /\ \E env \in accountEnvs :
                LET st == startAccounts(env)
                IN  /\ processEnv = (IF recorded THEN env ELSE Undefined)
                    /\ running = st.running
                    /\ accountsConfig = st.config
                    /\ linearClients = st.clients
                    /\ linearClient = st.client
          /\ workspacesConfig = NullConfig
    /\ phase = "idle"
    /\ call = NoCall
    /\ ret = NoRet
    /\ selected = Undefined
    /\ allStates = <<>>
    /\ hasNextPage = FALSE
    /\ endCursor = Undefined
    /\ delivered = <<>>
    /\ awaiting = NoAwait
    /\ fanout = NoFanout

Init == InitFrom(WorkspaceEnvs, AccountEnvs, FALSE)

\* the transport delivers a request to the handler
Receive(c) ==
    /\ running /\ phase = "idle"
    /\ phase' = "pending"
    /\ call' = c
    /\ UNCHANGED <<variant, processEnv, running, awaiting, fanout, shared, ret, selected, loop>>

\* the handler's result goes back to the caller
Return ==
    /\ phase = "done"
    /\ phase' = "idle"
    /\ call' = NoCall
    /\ ret' = NoRet
    /\ allStates' = <<>>
    /\ hasNextPage' = FALSE
    /\ endCursor' = Undefined
    /\ delivered' = <<>>
    /\ fanout' = NoFanout
    /\ UNCHANGED <<variant, processEnv, running, awaiting, shared, selected>>

\* the caller sends the selection request it has just been answered once more
Redeliver ==
    /\ phase = "done"
    /\ call.name = SelectionTool
    /\ phase' = "pending"
    /\ call' = [call EXCEPT !.repeat = TRUE]
    /\ ret' = NoRet
    /\ UNCHANGED <<variant, processEnv, running, awaiting, fanout, shared, selected, loop>>

Handling(v, name) == running /\ variant = v /\ phase = "pending" /\ call.name = name

case_list_workspaces ==
    /\ Handling("workspaces", "list_workspaces")
    /\ LET r == list_workspaces(workspacesConfig, call)
       IN  /\ workspacesConfig' = r.config
           /\ ret' = [before |-> workspacesConfig.activeWorkspaceId, lookup |-> r.lookup,
                      client |-> NoClient, result |-> r.result]
           /\ selected' = IF r.result.kind = "selected"
                          THEN workspacesConfig.workspaces[r.lookup.record].id
                          ELSE selected
    /\ phase' = "done"
    /\ UNCHANGED <<variant, processEnv, running, awaiting, fanout, accountsConfig, linearClients, linearClient, call, loop>>

RoutedCase(name) ==
    /\ Handling("workspaces", name)
    /\ \E upstreamOk \in BOOLEAN :
        LET r == routed(workspacesConfig, linearClients, call, upstreamOk)
        IN  ret' = [before |-> workspacesConfig.activeWorkspaceId, lookup |-> NoMatch,
                    client |-> r.client, result |-> r.result]
    /\ phase' = "done"
    /\ UNCHANGED <<variant, processEnv, running, awaiting, fanout, shared, call, selected, loop>>

case_create_issue     == RoutedCase("create_issue")
case_list_issues      == RoutedCase("list_issues")
case_update_issue     == RoutedCase("update_issue")
case_list_teams       == RoutedCase("list_teams")
case_list_projects    == RoutedCase("list_projects")
case_search_issues    == RoutedCase("search_issues")
case_get_issue_status == RoutedCase("get_issue_status")
case_get_issue        == RoutedCase("get_issue")

\* default: the McpError is thrown inside the try block and caught by it
case_default ==
    /\ running /\ variant = "workspaces" /\ phase = "pending"
    /\ call.name \notin RoutedTools \cup {"list_workspaces"}
    /\ ret' = [before |-> workspacesConfig.activeWorkspaceId, lookup |-> NoMatch,
               client |-> NoClient, result |-> caught("MethodNotFound")]
    /\ phase' = "done"
    /\ UNCHANGED <<variant, processEnv, running, awaiting, fanout, shared, call, selected, loop>>

acct_case_select_account ==
    /\ Handling("accounts", "select_account")
    /\ LET r == select_account(accountsConfig, call)
       IN  /\ accountsConfig' = r.config
           /\ ret' = [before |-> accountsConfig.activeEmail, lookup |-> r.lookup,
                      client |-> NoClient, result |-> r.result]
           /\ selected' = IF r.result.kind = "selected"
                          THEN accountsConfig.accounts[r.lookup.record].email
                          ELSE selected
    /\ phase' = "done"
    /\ UNCHANGED <<variant, processEnv, running, awaiting, fanout, workspacesConfig, linearClients, linearClient, call, loop>>

RoutedCaseAcct(name) ==
    /\ Handling("accounts", name)
    /\ \E upstreamOk \in BOOLEAN :
        LET r == routedAcct(accountsConfig, linearClients, linearClient, call, upstreamOk)
        IN  ret' = [before |-> accountsConfig.activeEmail, lookup |-> r.lookup,
                    client |-> r.client, result |-> r.result]
    /\ phase' = "done"
    /\ UNCHANGED <<variant, processEnv, running, awaiting, fanout, shared, call, selected, loop>>

acct_case_create_issue     == RoutedCaseAcct("create_issue")
acct_case_list_issues      == RoutedCaseAcct("list_issues")
acct_case_update_issue     == RoutedCaseAcct("update_issue")
acct_case_list_teams       == RoutedCaseAcct("list_teams")
acct_case_list_projects    == RoutedCaseAcct("list_projects")
acct_case_search_issues    == RoutedCaseAcct("search_issues")
acct_case_get_issue_status == RoutedCaseAcct("get_issue_status")
acct_case_get_issue        == RoutedCaseAcct("get_issue")

acct_case_default ==
    /\ running /\ variant = "accounts" /\ phase = "pending"
    /\ call.name \notin RoutedTools \cup {"select_account"}
    /\ ret' = [before |-> accountsConfig.activeEmail, lookup |-> NoMatch,
               client |-> NoClient, result |-> caughtAcct("MethodNotFound")]
    /\ phase' = "done"
    /\ UNCHANGED <<variant, processEnv, running, awaiting, fanout, shared, call, selected, loop>>

Next ==
    \/ \E c \in Requests : Receive(c)
    \/ case_list_workspaces
    \/ case_create_issue
    \/ case_list_issues
    \/ case_update_issue
    \/ case_list_teams
    \/ case_list_projects
    \/ case_search_issues
    \/ case_get_issue_status
    \/ case_get_issue
    \/ case_default
    \/ acct_case_select_account
    \/ acct_case_create_issue
    \/ acct_case_list_issues
    \/ acct_case_update_issue
    \/ acct_case_list_teams
    \/ acct_case_list_projects
    \/ acct_case_search_issues
    \/ acct_case_get_issue_status
    \/ acct_case_get_issue
    \/ acct_case_default
    \/ Return
    \/ Redeliver

Spec == Init /\ [][Next]_vars

-----------------------------------------------------------------------------
(* get_issue_status, one step per await of the pagination loop *)

\* most pages the upstream delivers to one call before it reports
\* hasNextPage = false
MaxPages == 3

\* states.nodes of one page: none, one state, two states
NodeLists == {<<>>, <<"s1">>, <<"s2", "s1">>}

\* the cursor the upstream hands out with its k-th page
cursor(k) == [i \in 1..k |-> "c"]

\* what linearClient.workflowStates may resolve to for the k-th fetch of a call
UpstreamPages(k) ==
    {[nodes |-> n, hasNextPage |-> h,
      endCursor |-> IF h THEN cursor(k) ELSE Undefined] :
        n \in NodeLists, h \in (IF k < MaxPages THEN BOOLEAN ELSE {FALSE})}

\* mutant of push: the page replaces what was collected
push_replaces(all, nodes) == nodes

\* allStates.push(...states.nodes.map(...))
push(all, nodes) == all \o nodes

\* the statements of case "get_issue_status" before the loop: the client is
\* resolved and the arguments are tested, then the locals are initialised
StatusBegin(v, r) ==
    /\ Handling(v, "get_issue_status")
    /\ ret' = [before |-> active, lookup |-> IF v = "accounts" THEN r.lookup ELSE NoMatch,
               client |-> r.client,
               result |-> IF r.result.kind = "error" THEN r.result ELSE NoResult]
    /\ IF r.result.kind = "error"
       THEN phase' = "done" /\ UNCHANGED loop
       ELSE /\ phase' = "loop"
            /\ allStates' = <<>>
            /\ hasNextPage' = TRUE
            /\ endCursor' = Undefined
            /\ delivered' = <<>>
    /\ UNCHANGED <<variant, processEnv, running, awaiting, fanout, shared, call, selected>>

\* mutant of StatusFetch: a rejected fetch clears the active pointer
StatusFetch_clears(v, rejected) ==
    /\ running /\ variant = v /\ phase = "loop" /\ hasNextPage
    /\ \/ \E states \in UpstreamPages(Len(delivered) + 1) :
            /\ allStates' = allStates \o states.nodes
            /\ hasNextPage' = states.hasNextPage
            /\ endCursor' = states.endCursor
            /\ delivered' = Append(delivered, states)
            /\ UNCHANGED <<phase, ret, workspacesConfig, accountsConfig>>
       \/ /\ phase' = "done"
          /\ ret' = [ret EXCEPT !.result = rejected]
          /\ workspacesConfig' = [workspacesConfig EXCEPT !.activeWorkspaceId = Undefined]
          /\ accountsConfig' = [accountsConfig EXCEPT !.activeEmail = Undefined]
          /\ UNCHANGED loop
    /\ UNCHANGED <<variant, processEnv, running, awaiting, fanout, linearClients, linearClient, call,
                   selected>>

\* one iteration of while (hasNextPage): the awaited fetch resolves to a page,
\* or rejects and the catch block of the handler returns
StatusFetch(v, rejected) ==
    /\ running /\ variant = v /\ phase = "loop" /\ hasNextPage
    /\ \/ \E states \in UpstreamPages(Len(delivered) + 1) :
            /\ allStates' = push(allStates, states.nodes)
            /\ hasNextPage' = states.hasNextPage
            /\ endCursor' = states.endCursor
            /\ delivered' = Append(delivered, states)
            /\ UNCHANGED <<phase, ret>>
       \/ /\ phase' = "done"
          /\ ret' = [ret EXCEPT !.result = rejected]
          /\ UNCHANGED loop
    /\ UNCHANGED <<variant, processEnv, running, awaiting, fanout, shared, call, selected>>

\* mutant of StatusReturn: the loop gives up after two pages
StatusReturn_capped(v) ==
    /\ running /\ variant = v /\ phase = "loop"
    /\ ~hasNextPage \/ Len(delivered) >= 2
    /\ phase' = "done"
    /\ ret' = [ret EXCEPT !.result = Payload]
    /\ UNCHANGED <<variant, processEnv, running, awaiting, fanout, shared, call, selected, loop>>

\* the return after the loop: the text is JSON.stringify(allStates)
StatusReturn(v) ==
    /\ running /\ variant = v /\ phase = "loop" /\ ~hasNextPage
    /\ phase' = "done"
    /\ ret' = [ret EXCEPT !.result = Payload]
    /\ UNCHANGED <<variant, processEnv, running, awaiting, fanout, shared, call, selected, loop>>

get_issue_status_begin ==
    \E r \in {routed(workspacesConfig, linearClients, call, TRUE)} :
        StatusBegin("workspaces", r)
get_issue_status_fetch  == StatusFetch("workspaces", caught("Upstream"))
get_issue_status_return == StatusReturn("workspaces")

acct_get_issue_status_begin ==
    \E r \in {routedAcct(accountsConfig, linearClients, linearClient, call, TRUE)} :
        StatusBegin("accounts", r)
acct_get_issue_status_fetch  == StatusFetch("accounts", caughtAcct("Upstream"))
acct_get_issue_status_return == StatusReturn("accounts")

\* the configurations the pagination is explored under
PagingWorkspaceEnvs ==
    {e \in WorkspaceEnvs :
        \/ e = EnvBareKey
        \/ /\ e.hasWorkspaces /\ Len(e.workspaces) = 2
           /\ e.workspaces[1].id \in {S_a, S_c}
           /\ e.workspaces[1].apiKey \in {K_1, K_5}
           /\ e.workspaces[2].id = S_b}

PagingAccountEnvs ==
    {e \in AccountEnvs :
        \/ ~e.set /\ Truthy(e.apiKey)
        \/ /\ e.hasAccounts /\ Len(e.accounts) = 2
           /\ e.accounts[1].email = E_a /\ e.accounts[1].apiKey = K_1
           /\ e.accounts[2].email = E_b}

PagingInit == InitFrom(PagingWorkspaceEnvs, PagingAccountEnvs, FALSE)

\* every tool, get_issue_status step by step
PagingNext ==
    \/ \E c \in Requests : Receive(c)
    \/ case_list_workspaces
    \/ case_create_issue
    \/ case_list_issues
    \/ case_update_issue
    \/ case_list_teams
    \/ case_list_projects
    \/ case_search_issues
    \/ get_issue_status_begin
    \/ get_issue_status_fetch
    \/ get_issue_status_return
    \/ case_get_issue
    \/ case_default
    \/ acct_case_select_account
    \/ acct_case_create_issue
    \/ acct_case_list_issues
    \/ acct_case_update_issue
    \/ acct_case_list_teams
    \/ acct_case_list_projects
    \/ acct_case_search_issues
    \/ acct_get_issue_status_begin
    \/ acct_get_issue_status_fetch
    \/ acct_get_issue_status_return
    \/ acct_case_get_issue
    \/ acct_case_default
    \/ Return
    \/ Redeliver

PagingSpec == PagingInit /\ [][PagingNext]_vars

\* get_issue_status alone. The event loop runs every continuation whose
\* awaited promise has settled, and every fetch settles.
StatusNext ==
    \/ \E c \in {r \in Requests : r.name = "get_issue_status"} : Receive(c)
    \/ get_issue_status_begin
    \/ get_issue_status_fetch
    \/ get_issue_status_return
    \/ acct_get_issue_status_begin
    \/ acct_get_issue_status_fetch
    \/ acct_get_issue_status_return
    \/ Return

\* weak fairness of acct_get_issue_status_begin, written with the guard of the
\* step: the step is enabled exactly while part_000 holds a get_issue_status
\* request it has not started
acct_begin_fairness ==
    \/ []<>(~Handling("accounts", "get_issue_status"))
    \/ []<><<acct_get_issue_status_begin>>_vars

StatusSpec ==
    /\ PagingInit
    /\ [][StatusNext]_vars
    /\ WF_vars(get_issue_status_begin)
    /\ WF_vars(get_issue_status_fetch)
    /\ WF_vars(get_issue_status_return)
    /\ acct_begin_fairness
    /\ WF_vars(acct_get_issue_status_fetch)
    /\ WF_vars(acct_get_issue_status_return)

-----------------------------------------------------------------------------
(* Startup: every environment, and the calls that show what startup left *)

StartInit == InitFrom(WorkspaceEnvs, AccountEnvs, TRUE)

\* requests that carry no selector
PlainRequests ==
    {c \in Requests : ~Truthy(c.email) /\ ~Truthy(c.workspace) /\ ~Truthy(c.workspaceId)
                      /\ c.hasArgs /\ c.given = RequiredArgs(c.name)}

StartNext ==
    \/ \E c \in PlainRequests : Receive(c)
    \/ case_list_workspaces
    \/ case_create_issue
    \/ case_list_issues
    \/ case_update_issue
    \/ case_list_teams
    \/ case_list_projects
    \/ case_search_issues
    \/ case_get_issue_status
    \/ case_get_issue
    \/ acct_case_select_account
    \/ acct_case_create_issue
    \/ acct_case_list_issues
    \/ acct_case_update_issue
    \/ acct_case_list_teams
    \/ acct_case_list_projects
    \/ acct_case_search_issues
    \/ acct_case_get_issue_status
    \/ acct_case_get_issue
    \/ Return

StartSpec == StartInit /\ [][StartNext]_vars

-----------------------------------------------------------------------------
(* index.ts: a call suspended at an await while other requests are handled *)

\* the tools whose handler awaits the upstream more than once
AwaitingTools == {"get_issue_status", "update_issue", "get_issue"}

\* the upstream operations one call issues one after the other: the pages of
\* get_issue_status; the issue fetch and the update of update_issue; the
\* issue fetch and the fan-out of get_issue
MaxOps(name) == IF name = "get_issue_status" THEN MaxPages ELSE 2

\* mutant of opClient: the client is resolved again for each operation
opClient_reresolved(aw, config, clients) ==
    getLinearClient(config, clients, aw.call.workspaceId)

\* the client an upstream operation of the suspended call goes to: the
\* const linearClient of the case block, or the issue fetched through it
opClient(aw, config, clients) == aw.client

\* the requests of the interleaving: selections, and calls that suspend
InterleaveRequests ==
    {c \in WorkspaceRequests :
        \/ c.name = "list_workspaces" /\ c.workspace \in {Undefined, S_a, S_b, S_zzz}
        \/ c.name \in AwaitingTools /\ c.workspaceId \in {Undefined, S_a, S_zzz}}

\* a request is taken while another call is suspended; one call at most is
\* suspended at a time
InterleaveReceive(c) ==
    /\ c.name \in AwaitingTools => awaiting = NoAwait
    /\ Receive(c)

\* the handler of an awaiting tool runs to its first await: it resolves its
\* client, tests its arguments and issues its first upstream operation; a
\* throw before the await ends the call in the catch block
Suspend ==
    /\ running /\ variant = "workspaces" /\ phase = "pending"
    /\ call.name \in AwaitingTools
    /\ awaiting = NoAwait
    /\ LET r  == routed(workspacesConfig, linearClients, call, TRUE)
           aw == [call |-> call, client |-> r.client, before |-> active, ops |-> <<>>]
       IN  IF r.result.kind = "error"
           THEN /\ phase' = "done"
                /\ ret' = [before |-> active, lookup |-> NoMatch,
                           client |-> r.client, result |-> r.result]
                /\ UNCHANGED <<call, awaiting>>
           ELSE /\ awaiting' = [aw EXCEPT !.ops =
                                    <<opClient(aw, workspacesConfig, linearClients)>>]
                /\ phase' = "idle"
                /\ call' = NoCall
                /\ UNCHANGED ret
    /\ UNCHANGED <<variant, processEnv, running, shared, selected, loop, fanout>>

\* the awaited operation of the suspended call settles: the call issues its
\* next operation, or it was the last one (or it rejected) and the call returns
Resume ==
    /\ running /\ awaiting # NoAwait
    /\ \/ /\ Len(awaiting.ops) < MaxOps(awaiting.call.name)
          /\ awaiting' = [awaiting EXCEPT !.ops =
                            Append(@, opClient(awaiting, workspacesConfig, linearClients))]
       \/ awaiting' = NoAwait
    /\ UNCHANGED <<variant, processEnv, running, shared, phase, call, ret, selected,
                   loop, fanout>>

InterleaveInit == PagingInit /\ variant = "workspaces"

InterleaveNext ==
    \/ \E c \in InterleaveRequests : InterleaveReceive(c)
    \/ case_list_workspaces
    \/ Suspend
    \/ Resume
    \/ Return

InterleaveSpec == InterleaveInit /\ [][InterleaveNext]_vars

-----------------------------------------------------------------------------
(* index.ts: get_issue, one step per await *)

\* the sub-resources of the issue, in the order of the array given to
\* Promise.all
Lookups == <<"state", "assignee", "creator", "team", "project", "parent", "cycle",
             "labels", "comments", "attachments">>

LookupSet == {Lookups[i] : i \in 1..Len(Lookups)}

\* what Promise.all resolves to once the lookups in settled have resolved:
\* the value of each lookup at the position of the lookup, whatever the order
\* of arrival (a lookup's name stands for its value)
PromiseAll(settled) ==
    [i \in 1..Len(Lookups) |-> IF Lookups[i] \in settled THEN Lookups[i] ELSE ""]

\* the statements of case "get_issue" up to await linearClient.issue(...)
get_issue_begin ==
    /\ Handling("workspaces", "get_issue")
    /\ LET r == routed(workspacesConfig, linearClients, call, TRUE)
       IN  /\ ret' = [before |-> active, lookup |-> NoMatch, client |-> r.client,
                      result |-> IF r.result.kind = "error" THEN r.result ELSE NoResult]
           /\ phase' = IF r.result.kind = "error" THEN "done" ELSE "issue"
    /\ UNCHANGED <<variant, processEnv, running, awaiting, fanout, shared, call, selected, loop>>

\* the issue arrives and the elements of the array are evaluated: each getter
\* and each call starts its lookup; then Promise.all is awaited. Or the fetch
\* rejects, or yields no issue, and the catch block returns.
get_issue_fetched ==
    /\ running /\ variant = "workspaces" /\ phase = "issue"
    /\ \/ /\ fanout' = [started |-> LookupSet, settled |-> {}, first |-> "",
                        details |-> <<>>]
          /\ phase' = "fanout"
          /\ UNCHANGED ret
       \/ /\ phase' = "done"
          /\ ret' = [ret EXCEPT !.result = caught("Upstream")]
          /\ UNCHANGED fanout
    /\ UNCHANGED <<variant, processEnv, running, awaiting, shared, call, selected, loop>>

\* one of the lookups settles, in any order: it resolves, or it rejects and
\* with it Promise.all; the inner catch rethrows and the outer catch returns
get_issue_settle ==
    /\ running /\ variant = "workspaces" /\ phase = "fanout"
    /\ \E l \in fanout.started \ fanout.settled :
        \/ /\ fanout' = [fanout EXCEPT !.settled = @ \cup {l},
                                       !.first = IF @ = "" THEN l ELSE @]
           /\ UNCHANGED <<phase, ret>>
        \/ /\ phase' = "done"
           /\ ret' = [ret EXCEPT !.result = caught("FailedDetails")]
           /\ UNCHANGED fanout
    /\ UNCHANGED <<variant, processEnv, running, awaiting, shared, call, selected, loop>>

\* mutant of FanCompose: the response is composed as soon as one lookup has
\* resolved
FanCompose_early(v) ==
    /\ running /\ variant = v /\ phase = "fanout"
    /\ fanout.settled # {}
    /\ fanout' = [fanout EXCEPT !.details = PromiseAll(fanout.settled)]
    /\ phase' = "done"
    /\ ret' = [ret EXCEPT !.result = Payload]
    /\ UNCHANGED <<variant, processEnv, running, awaiting, shared, call, selected, loop>>

\* Promise.all resolves when every lookup has; issueDetails is composed from
\* its array and returned
FanCompose(v) ==
    /\ running /\ variant = v /\ phase = "fanout"
    /\ fanout.settled = fanout.started
    /\ fanout' = [fanout EXCEPT !.details = PromiseAll(fanout.settled)]
    /\ phase' = "done"
    /\ ret' = [ret EXCEPT !.result = Payload]
    /\ UNCHANGED <<variant, processEnv, running, awaiting, shared, call, selected, loop>>

get_issue_compose == FanCompose("workspaces")

FanRequests ==
    {c \in WorkspaceRequests : c.name = "get_issue" /\ c.workspaceId \in {Undefined, S_a}}

FanNext ==
    \/ \E c \in FanRequests : Receive(c)
    \/ get_issue_begin
    \/ get_issue_fetched
    \/ get_issue_settle
    \/ get_issue_compose
    \/ Return

FanSpec == InterleaveInit /\ [][FanNext]_vars

-----------------------------------------------------------------------------
(* Vocabulary of the properties: what it means for a selector to match *)

Done == running /\ phase = "done"

InWorkspaces == variant = "workspaces"
InAccounts   == variant = "accounts"

\* s is, up to case, one whole comma-separated entry of raw, the spaces
\* around the entry aside
IsAliasEntry(raw, s) ==
    \E i \in 1..(Len(raw) + 1), j \in 0..Len(raw) :
        /\ i <= j + 1
        /\ (i = 1 \/ raw[i - 1] = ",")
        /\ (j = Len(raw) \/ raw[j + 1] = ",")
        /\ \A k \in i..j : raw[k] # ","
        /\ \E a \in i..(j + 1), b \in (i - 1)..j :
            /\ a <= b + 1
            /\ \A k \in i..(a - 1) : raw[k] = " "
            /\ \A k \in (b + 1)..j : raw[k] = " "
            /\ (a <= b => raw[a] # " " /\ raw[b] # " ")
            /\ toLowerCase(SubSeq(raw, a, b)) = toLowerCase(s)

MatchesId(r, s)    == r.id = s
MatchesName(r, s)  == r.name # Undefined /\ toLowerCase(r.name) = toLowerCase(s)
MatchesAlias(r, s) == Truthy(r.aliases) /\ IsAliasEntry(r.aliases, s)
Matches(r, s)      == MatchesId(r, s) \/ MatchesName(r, s) \/ MatchesAlias(r, s)

\* the tier on which a workspace element matches: 1 id, 2 name, 3 alias, 4 none
TierOf(r, s) ==
    IF MatchesId(r, s) THEN 1 ELSE IF MatchesName(r, s) THEN 2
    ELSE IF MatchesAlias(r, s) THEN 3 ELSE 4

\* the same for a workspace of an account, which has no id
TierOfNamed(w, s) ==
    IF MatchesName(w, s) THEN 2 ELSE IF MatchesAlias(w, s) THEN 3 ELSE 4

Workspaces == workspacesConfig.workspaces
Accounts   == accountsConfig.accounts

\* the (account, workspace) positions of the accounts configuration
NamedAt ==
    {p \in (1..Len(Accounts)) \X (1..Len(Accounts) + 2) :
        Accounts[p[1]].hasWorkspaces /\ p[2] <= Len(Accounts[p[1]].workspaces)}
Named(p) == Accounts[p[1]].workspaces[p[2]]

\* the pool's client for a key
ClientOf(key) == linearClients[key]

\* the call carries every argument its tool requires
Complete == call.hasArgs /\ RequiredArgs(call.name) \subseteq call.given

\* a routed call carries a non-empty selector argument that matches no record
UnknownSelector ==
    IF InWorkspaces
    THEN Truthy(call.workspaceId)
         /\ \A i \in 1..Len(Workspaces) : ~Matches(Workspaces[i], call.workspaceId)
    ELSE \/ Truthy(call.email)
            /\ \A i \in 1..Len(Accounts) : Accounts[i].email # call.email
         \/ Truthy(call.workspace)
            /\ \A p \in NamedAt : TierOfNamed(Named(p), call.workspace) = 4

\* a routed call carries no selector argument
NoSelector ==
    IF InWorkspaces THEN ~Truthy(call.workspaceId)
    ELSE ~Truthy(call.email) /\ ~Truthy(call.workspace)

-----------------------------------------------------------------------------
(* C1 .. C10 *)

\* C1: a routed call whose selector argument is non-empty and matches no
\* configured record ends in an unknown-workspace error and issues no upstream
\* operation on any client. index.ts falls through to the active workspace.
C1_UnknownSelectorFails ==
    (Done /\ call.name \in RoutedTools /\ Complete /\ UnknownSelector)
        => /\ ret.client = NoClient
           /\ ret.result.kind = "error"
           /\ ret.result.message = "UnknownWorkspace"

\* C2: once a selection has succeeded, a routed call without a selector uses
\* the client of the record the most recent successful selection chose.
\* part_000 keeps using the default client computed at startup.
C2_NoSelectorUsesLastSelected ==
    (Done /\ call.name \in RoutedTools /\ Complete /\ NoSelector
          /\ selected # Undefined)
        => ret.client = ClientOf(selected)

\* C3: in index.ts, a routed call whose selector matches a record by id, by
\* name or by alias is issued on the client of a record it matches.
\* getLinearClient looks the selector up among the ids only.
C3_MatchingSelectorUsesItsRecord ==
    (Done /\ InWorkspaces /\ call.name \in RoutedTools /\ Complete
          /\ Truthy(call.workspaceId)
          /\ \E i \in 1..Len(Workspaces) : Matches(Workspaces[i], call.workspaceId))
        => \E i \in 1..Len(Workspaces) :
              /\ Matches(Workspaces[i], call.workspaceId)
              /\ ret.client = ClientOf(Workspaces[i].id)

\* C4: in index.ts, a routed call with an absent or empty selector uses the
\* active record's client when the active pointer names a record, else the
\* first record's client when there is a record, else it fails.
C4_FallbackPrecedence ==
    (Done /\ InWorkspaces /\ call.name \in RoutedTools /\ Complete /\ NoSelector)
        => IF Truthy(active) /\ \E i \in 1..Len(Workspaces) : Workspaces[i].id = active
           THEN ret.client = ClientOf(active)
           ELSE IF Len(Workspaces) > 0
           THEN ret.client = ClientOf(Workspaces[1].id)
           ELSE ret.client = NoClient /\ ret.result.kind = "error"

\* C5: whenever the active pointer is set, a configured record has that id.
C5_ActiveNamesRecord ==
    (running /\ active # Undefined)
        => IF InWorkspaces
           THEN \E i \in 1..Len(Workspaces) : Workspaces[i].id = active
           ELSE \E i \in 1..Len(Accounts) : Accounts[i].email = active


\* the selection call being handled carries a selector that matches a record
SelectorResolves ==
    /\ call.hasArgs
    /\ IF InWorkspaces
       THEN Truthy(call.workspace)
            /\ \E i \in 1..Len(Workspaces) : Matches(Workspaces[i], call.workspace)
       ELSE \/ Truthy(call.workspace)
               /\ \E p \in NamedAt : TierOfNamed(Named(p), call.workspace) < 4
            \/ ~Truthy(call.workspace) /\ Truthy(call.email)
               /\ \E i \in 1..Len(Accounts) : Accounts[i].email = call.email

\* C6: no step changes the client pool, the default client or the record
\* list, and the only step that changes the active pointer is the handling of
\* a selection call whose selector matches a record.
C6_OnlySelectionWritesActive ==
    [][ /\ linearClients' = linearClients
        /\ linearClient' = linearClient
        /\ workspacesConfig' =
              [workspacesConfig EXCEPT !.activeWorkspaceId = workspacesConfig'.activeWorkspaceId]
        /\ accountsConfig' =
              [accountsConfig EXCEPT !.activeEmail = accountsConfig'.activeEmail]
        /\ (active' # active
              => phase = "pending" /\ call.name = SelectionTool /\ SelectorResolves)
      ]_vars

\* a selection has moved the active pointer
C6_Witness == Done /\ call.name = SelectionTool /\ ret.before # active

\* C7: the record lookup returns matches on the earliest tier (id, then
\* name, then alias) on which any record matches, whatever the declaration
\* order. findWorkspace of part_000 tries name and alias workspace by workspace.
C7_EarliestTierWins ==
    (Done /\ call.name = SelectionTool /\ call.hasArgs /\ Truthy(call.workspace)
          /\ ret.lookup # Thrown)
        => IF InWorkspaces
           THEN LET best == Min({TierOf(Workspaces[i], call.workspace) :
                                    i \in 1..Len(Workspaces)} \cup {4})
                IN  IF best = 4 THEN ret.lookup = NoMatch
                    ELSE /\ ret.lookup.record > 0
                         /\ TierOf(Workspaces[ret.lookup.record], call.workspace) = best
           ELSE LET best == Min({TierOfNamed(Named(p), call.workspace) : p \in NamedAt}
                                \cup {4})
                IN  IF best = 4 \/ Len(Accounts) = 0 THEN ret.lookup = NoMatch
                    ELSE /\ ret.lookup.record > 0
                         /\ TierOfNamed(Named(<<ret.lookup.record, ret.lookup.workspace>>),
                                        call.workspace) = best

C9_RepeatedSelectionIdempotent ==
    [][ (phase = "pending" /\ call.repeat /\ call.name = SelectionTool
            /\ SelectorResolves)
          => shared' = shared ]_vars

\* the same selector has been selected twice in a row
C9_Witness ==
    /\ Done /\ call.name = SelectionTool /\ call.repeat
    /\ ret.result.kind = "selected"
    /\ ret.before = active

\* a selection call has resolved its selector to a record
Resolved ==
    /\ Done /\ call.name = SelectionTool /\ call.hasArgs
    /\ Truthy(call.workspace) \/ (InAccounts /\ Truthy(call.email))
    /\ ret.lookup.record > 0

\* the id, name and email a listing copies from a workspace element
Listed(r) == [id |-> r.id, name |-> r.name, email |-> r.email]

\* C10 as amended: when the selection tool resolves its selector, the active
\* pointer becomes the id of the resolved record and the result reports that
\* record as the selected one; list_workspaces of index.ts also lists every
\* record, select_account of part_000 lists none.
C10_SelectionSetsActive ==
    Resolved
        => /\ ~ret.result.isError
           /\ IF InWorkspaces
              THEN LET r == Workspaces[ret.lookup.record]
                   IN  /\ active = r.id
                       /\ ret.result.active = Listed(r)
                       /\ ret.result.listed =
                            [i \in 1..Len(Workspaces) |-> Listed(Workspaces[i])]
              ELSE LET a == Accounts[ret.lookup.record]
                   IN  /\ active = a.email
                       /\ ret.result.active.id = a.email
                       /\ ret.result.active.email = a.email
                       /\ ret.lookup.workspace > 0
                            => ret.result.active.name =
                                  a.workspaces[ret.lookup.workspace].name
                       /\ ret.result.listed = <<>>

\* "Work" has selected, by name, a workspace that was not active
C10_Witness ==
    /\ Resolved /\ InWorkspaces
    /\ call.workspace = S_Work
    /\ MatchesName(Workspaces[ret.lookup.record], S_Work)
    /\ ret.before # active
    /\ Len(Workspaces) = 2

\* C10 as stated: the result of a resolved selection also lists all records.
C10_SelectedViewListsAll ==
    Resolved
        => /\ active = IF InWorkspaces THEN Workspaces[ret.lookup.record].id
                       ELSE Accounts[ret.lookup.record].email
           /\ Len(ret.result.listed) =
                 IF InWorkspaces THEN Len(Workspaces) ELSE Len(Accounts)


-----------------------------------------------------------------------------
(* C11 .. C20 *)

\* the selection call carries a non-empty selector that matches no record
SelectorUnresolved ==
    /\ call.hasArgs
    /\ IF InWorkspaces
       THEN Truthy(call.workspace)
            /\ \A i \in 1..Len(Workspaces) : ~Matches(Workspaces[i], call.workspace)
       ELSE \/ Truthy(call.workspace)
               /\ \A p \in NamedAt : TierOfNamed(Named(p), call.workspace) = 4
            \/ ~Truthy(call.workspace) /\ Truthy(call.email)
               /\ \A i \in 1..Len(Accounts) : Accounts[i].email # call.email

NumRecords == IF InWorkspaces THEN Len(Workspaces) ELSE Len(Accounts)

\* C11: the selection tool called with a non-empty selector that resolves to
\* no record returns a result that is not an error, lists the available
\* records, and leaves the active pointer as it was. select_account of
\* part_000 lists nothing; findWorkspace raises on a record without name.
C11_UnresolvedSelectionReports ==
    (Done /\ call.name = SelectionTool /\ SelectorUnresolved /\ NumRecords > 0)
        => /\ ~ret.result.isError
           /\ ret.result.kind = "notFound"
           /\ Len(ret.result.listed) = NumRecords
           /\ active = ret.before

\* C12: the handler returns no envelope (a fault leaves it) exactly when the
\* tool name is not a declared tool. The catch block of the handler catches
\* the McpError of the default case too.
C12_UnknownToolIsFault ==
    Done => (call.name \notin RoutedTools \cup {SelectionTool} <=> ret.result = NoResult)

\* C13: every failed call of a routed tool (routing, missing argument,
\* upstream) returns an envelope with the isError flag set and a message.
\* The catch block of index.ts sets no flag.
C13_FailuresCarryErrorFlag ==
    (Done /\ call.name \in RoutedTools /\ ret.result.kind = "error")
        => ret.result.isError /\ ret.result.message # ""


\* a complete create_issue request with the selector arguments given
CreateIssue(email, workspace, workspaceId) ==
    Request("create_issue", TRUE, email, workspace, workspaceId, {"title", "teamId"})

MissingRequired ==
    /\ call.name \in RoutedTools
    /\ ~(RequiredArgs(call.name) \subseteq (IF call.hasArgs THEN call.given ELSE {}))

\* C15: a call of a tool with required arguments that lacks one of them ends
\* in a missing-argument error and issues no upstream operation. Without an
\* arguments object the handlers raise a TypeError before they test anything.
C15_MissingArgumentFails ==
    (Done /\ MissingRequired)
        => /\ ret.client = NoClient
           /\ ret.result.kind = "error"
           /\ ret.result.message = "MissingArgument"


\* the nodes of a sequence of pages, page after page
RECURSIVE Concat(_)
Concat(pages) ==
    IF pages = <<>> THEN <<>> ELSE Head(pages).nodes \o Concat(Tail(pages))

StatusReturned == Done /\ call.name = "get_issue_status" /\ ret.result.kind = "payload"

\* C16: what get_issue_status returns is the concatenation, in fetch order
\* and in the order inside each page, of every page the upstream delivered,
\* and the last of these pages is the first that reported hasNextPage = false.
C16_AllPagesInOrder ==
    StatusReturned
        => /\ Len(delivered) > 0
           /\ allStates = Concat(delivered)
           /\ ~delivered[Len(delivered)].hasNextPage
           /\ \A k \in 1..(Len(delivered) - 1) : delivered[k].hasNextPage

\* two pages, ["s1"] and then ["s2", "s1"], have been returned as s1, s2, s1
C16_Witness ==
    /\ StatusReturned
    /\ Len(delivered) = 2
    /\ delivered[1].nodes = <<"s1">>
    /\ delivered[2].nodes = <<"s2", "s1">>
    /\ allStates = <<"s1", "s2", "s1">>

\* C17: no page is fetched after the upstream has reported hasNextPage =
\* false, the call returns its states only once the upstream has reported it
\* (no cap of its own), and every call of get_issue_status eventually returns.
C17_PaginationTerminates ==
    /\ [][ Len(delivered') > Len(delivered) /\ delivered # <<>>
             => delivered[Len(delivered)].hasNextPage ]_vars
    /\ [](StatusReturned => ~delivered[Len(delivered)].hasNextPage)
    /\ (phase \in {"pending", "loop"} ~> phase = "done")

\* the loop has run to the last page the upstream had
C17_Witness ==
    /\ StatusReturned
    /\ Len(delivered) = MaxPages
    /\ \A k \in 1..(MaxPages - 1) : delivered[k].hasNextPage


\* the value of LINEAR_API_KEY is a non-empty text that startup does not take
\* as a structured configuration
BareCredential ==
    /\ InWorkspaces
    /\ Truthy(processEnv.text)
    /\ ~(processEnv.parses /\ processEnv.hasWorkspaces)

\* C18: a configuration value that does not parse, or that parses to a value
\* without an array "workspaces", leaves a running server with exactly one
\* workspace record, of id "default" and with the raw value as credential,
\* which is the only entry of the client pool and the active workspace.
C18_BareKeyYieldsDefault ==
    BareCredential =>
        /\ running
        /\ Len(Workspaces) = 1
        /\ Workspaces[1].id = S_default
        /\ Workspaces[1].apiKey = processEnv.text
        /\ DOMAIN linearClients = {S_default}
        /\ linearClients[S_default].apiKey = processEnv.text
        /\ active = S_default

\* a value that parses but has no workspaces array, and the listing of what
\* startup made of it
C18_Witness ==
    /\ BareCredential
    /\ processEnv.parses
    /\ Done
    /\ call.name = "list_workspaces"
    /\ ret.result.kind = "listing"
    /\ Len(ret.result.listed) = 1
    /\ ret.result.active.id = S_default

\* the value of LINEAR_API_KEY is taken as a structured configuration
Structured ==
    /\ InWorkspaces
    /\ Truthy(processEnv.text)
    /\ processEnv.parses
    /\ processEnv.hasWorkspaces

\* C19: after the startup of a structured configuration the active pointer is
\* the configured activeWorkspaceId when that is non-empty, otherwise the id
\* of the first declared workspace, and absent only when no workspace is
\* declared; a listing requested before any selection reports the first
\* workspace as active when no activeWorkspaceId was configured.
C19_InitialActive ==
    /\ (Structured /\ running) =>
            active = IF Truthy(processEnv.activeWorkspaceId)
                     THEN processEnv.activeWorkspaceId
                     ELSE IF Len(processEnv.workspaces) > 0
                     THEN processEnv.workspaces[1].id
                     ELSE Undefined
    /\ (Structured /\ Done /\ call.name = "list_workspaces"
            /\ ret.result.kind = "listing"
            /\ ~Truthy(processEnv.activeWorkspaceId))
        => ret.result.active = entryOf(Workspaces[1])

\* the last element of the registry with the id given
LastDeclared(id) ==
    CHOOSE i \in 1..Len(Workspaces) :
        Workspaces[i].id = id /\ \A j \in (i + 1)..Len(Workspaces) : Workspaces[j].id # id

Declared(id) == \E i \in 1..Len(Workspaces) : Workspaces[i].id = id

\* C20: the registry holds one record per id, a selection by id reports the
\* name and email of the last workspace declared with that id, and a call
\* routed by id runs on the client made from the credential of that last
\* workspace.
C20_LastDuplicateWins ==
    /\ (InWorkspaces /\ running) =>
            \A i, j \in 1..Len(Workspaces) :
                Workspaces[i].id = Workspaces[j].id => i = j
    /\ (InWorkspaces /\ Done /\ call.name = "list_workspaces"
            /\ ret.result.kind = "selected" /\ Declared(call.workspace))
        => ret.result.active = entryOf(Workspaces[LastDeclared(call.workspace)])
    /\ (InWorkspaces /\ Done /\ call.name \in RoutedTools /\ ret.client # NoClient
            /\ Truthy(call.workspaceId) /\ Declared(call.workspaceId))
        => ret.client.apiKey = Workspaces[LastDeclared(call.workspaceId)].apiKey


-----------------------------------------------------------------------------
(* C21 .. C30 *)

\* the keys of the configured records: workspace ids, account emails
RecordKeys ==
    IF InWorkspaces THEN {Workspaces[i].id : i \in 1..Len(Workspaces)}
    ELSE {Accounts[i].email : i \in 1..Len(Accounts)}

\* C21: while the server runs, the keys of the client pool are exactly the
\* keys of the configured records, and no step writes the pool.
C21_PoolMatchesRecords ==
    /\ [](running => DOMAIN linearClients = RecordKeys)
    /\ [][linearClients' = linearClients]_vars


\* C22: a structured configuration with an empty workspace list leaves a
\* running server, on which every routed call issues no upstream operation
\* and returns the no-client error.
C22_EmptyListKeepsServing ==
    (Structured /\ Len(processEnv.workspaces) = 0) =>
        /\ running
        /\ (phase = "done" /\ call.name \in RoutedTools) =>
                /\ ret.client = NoClient
                /\ ret.result.kind = "error"
                /\ ret.result.message = "NoClient"


\* C23: a routed call that carries an arguments object with a selector that
\* matches no record and without a required argument returns the routing
\* error, whatever the tool.
C23_RoutingBeforeValidation ==
    (Done /\ call.name \in RoutedTools /\ call.hasArgs /\ UnknownSelector
          /\ MissingRequired)
        => /\ ret.result.kind = "error"
           /\ ret.result.message = "UnknownWorkspace"


\* the client getLinearClient gave when the suspended call began
ResolvedAtBegin ==
    getLinearClient([workspacesConfig EXCEPT !.activeWorkspaceId = awaiting.before],
                    linearClients, awaiting.call.workspaceId)

\* C24: every upstream operation of a suspended call goes to the client that
\* was resolved when the call began, whatever selections are handled while
\* it is suspended; the active pointer is written only by the single step of
\* a selection, which leaves the suspended call as it is.
C24_SuspendedCallKeepsClient ==
    /\ [](awaiting # NoAwait =>
            /\ awaiting.client = ResolvedAtBegin
            /\ \A k \in 1..Len(awaiting.ops) : awaiting.ops[k] = awaiting.client)
    /\ [][ workspacesConfig' # workspacesConfig =>
            /\ phase = "pending" /\ call.name = "list_workspaces"
            /\ phase' = "done"
            /\ awaiting' = awaiting ]_vars

\* a selection has moved the active pointer while a call without selector
\* was suspended, and the call has issued a further operation since
C24_Witness ==
    /\ awaiting # NoAwait
    /\ awaiting.call.workspaceId = Undefined
    /\ Len(awaiting.ops) = MaxOps(awaiting.call.name)
    /\ selected # Undefined
    /\ active # awaiting.before
    /\ getLinearClient(workspacesConfig, linearClients, Undefined) # awaiting.client


\* get_issue has returned the composed issue
IssueReturned == Done /\ call.name = "get_issue" /\ ret.result.kind = "payload"

\* C25: while get_issue awaits its fan-out all ten lookups have been started;
\* the issue is returned only when all ten have resolved, and the composed
\* details hold the value of every lookup at its own position whichever
\* lookup arrived first; a call that ends in an error has composed nothing.
C25_FanOutJoinsAllLookups ==
    /\ phase = "fanout" =>
            /\ Cardinality(fanout.started) = 10
            /\ fanout.settled \subseteq fanout.started
            /\ fanout.details = <<>>
    /\ IssueReturned =>
            /\ fanout.settled = LookupSet
            /\ fanout.details = Lookups
    /\ (Done /\ call.name = "get_issue" /\ ret.result.kind = "error") =>
            fanout.details = <<>>

\* the issue was returned after the last lookup of the array arrived first
C25_Witness ==
    /\ IssueReturned
    /\ fanout.first = "attachments"
    /\ fanout.details = Lookups


\* C26: a selection over a registry with incomplete records never raises,
\* and selects a record whenever the selector matches one, also one declared
\* after an incomplete record.
C26_IncompleteRecordsSearchable ==
    (Done /\ InWorkspaces /\ call.name = "list_workspaces" /\ call.hasArgs
          /\ Truthy(call.workspace) /\ Len(Workspaces) > 0)
        => /\ ret.lookup # Thrown
           /\ ret.result.kind # "error"
           /\ (\E i \in 1..Len(Workspaces) : Matches(Workspaces[i], call.workspace))
                => ret.result.kind = "selected"


\* C27: when list_workspaces without selector has returned its listing, the
\* record it reports as active is a configured record whose credential is
\* that of the client a call without selector resolves.
C27_ListedActiveIsRouted ==
    (Done /\ InWorkspaces /\ call.name = "list_workspaces"
          /\ ret.result.kind = "listing")
        => LET client == getLinearClient(workspacesConfig, linearClients, Undefined)
           IN  client # NoClient =>
                \E i \in 1..Len(Workspaces) :
                    /\ ret.result.active = entryOf(Workspaces[i])
                    /\ Workspaces[i].apiKey = client.apiKey


BothSelectors == InAccounts /\ call.hasArgs /\ Truthy(call.email) /\ Truthy(call.workspace)

\* C28: in part_000 a routed call that carries an email and a workspace
\* looks no workspace up and uses the client the email alone resolves; a
\* select_account that carries both consults the workspace only: it selects
\* the account of the workspace found, and when none is found it reports so
\* and leaves the active account as it was, whatever the email names.
C28_EmailAndWorkspacePrecedence ==
    /\ (Done /\ BothSelectors /\ call.name \in RoutedTools /\ Complete) =>
            /\ ret.lookup = NoMatch
            /\ ret.client = getLinearClientAcct(accountsConfig, linearClients, call.email)
            /\ ret.result.message # "UnknownWorkspace"
    /\ (Done /\ BothSelectors /\ call.name = "select_account" /\ Len(Accounts) > 0) =>
            /\ ret.lookup = findWorkspaceAcct(accountsConfig, call.workspace)
            /\ ret.lookup = NoMatch =>
                    ret.result.kind = "notFound" /\ active = ret.before
            /\ ret.lookup \notin {NoMatch, Thrown} =>
                    /\ ret.result.kind = "selected"
                    /\ active = Accounts[ret.lookup.record].email

\* select_account with a workspace that no account has and the email of an
\* account that is not the active one
C28_Witness ==
    /\ Done /\ BothSelectors /\ call.name = "select_account"
    /\ ret.lookup = NoMatch
    /\ ret.result.kind = "notFound"
    /\ \E i \in 1..Len(Accounts) : Accounts[i].email = call.email
    /\ active # call.email


\* C29: list_teams, list_issues or list_projects called without an arguments
\* object issues its upstream operation on a client and ends in no error of
\* its own.
C29_AbsentArgumentsAsEmpty ==
    (Done /\ call.name \in {"list_teams", "list_issues", "list_projects"}
          /\ ~call.hasArgs)
        => /\ ret.client # NoClient
           /\ ret.result.message \in {"", "Upstream"}


\* the credentials of the configured records
ApiKeys ==
    (IF InWorkspaces THEN {Workspaces[i].apiKey : i \in 1..Len(Workspaces)}
     ELSE {Accounts[i].apiKey : i \in 1..Len(Accounts)}) \ {Undefined}

\* every value a result carries in its listing and in its active entry
Shown(result) ==
    LET entries == {result.listed[i] : i \in 1..Len(result.listed)} \cup {result.active}
    IN  UNION {{e.id, e.name, e.email} : e \in entries}

\* C30: no value in a result of the selection tool is the credential of a
\* configured record.
C30_SelectionShowsNoCredential ==
    (Done /\ call.name = SelectionTool) => Shown(ret.result) \cap ApiKeys = {}

\* a selection that reports the record selected and lists two records, each
\* with a credential
C30_Witness ==
    /\ Done /\ call.name = SelectionTool
    /\ ret.result.kind = "selected"
    /\ Len(ret.result.listed) = 2
    /\ Cardinality(ApiKeys) = 2
    /\ ret.result.active.name # Undefined

====
